---- MODULE Spec2Model ----
(***************************************************************************)
(* Model of sleap/io/convert.py: the `sleap-convert` entry point `main`    *)
(* and `default_analysis_filename`.                                        *)
(*                                                                         *)
(* Paths, formats and video filenames are strings; the string, regular     *)
(* expression and pathlib (POSIX flavour) operations the code applies are  *)
(* computed character by character.  The loader, the generic reader, the   *)
(* two analysis writers and the native saver are external: each call is    *)
(* recorded in `calls` together with the result it produced, and the       *)
(* result is chosen nondeterministically.                                  *)
(***************************************************************************)
EXTENDS Integers, Sequences, FiniteSets, TLC

VARIABLES args, labels, pc, vids, outnames, fn, pos, calls, printed, error

vars == <<args, labels, pc, vids, outnames, fn, pos, calls, printed, error>>

(***************************************************************************)
(* Bounds and input sets.                                                  *)
(***************************************************************************)
MaxVideos == 2
MaxOutputs == 2

InputPaths ==
    {"proj.slp", "proj", "d/data.json.zip", "/r/my.v1.h5", "a.b.slp", "a.b.slp.slp",
     "q.json"}

OutputPaths == {"out.nix", "proj.001_camB.analysis.h5"}

Formats == {"slp", "h5", "json", "analysis", "analysis.nix", "nix"}

VideoArgs == {"", "cam", "camB"}

VideoFiles == {"camA.mp4", "v/camB.mp4"}

(***************************************************************************)
(* String operations.                                                      *)
(***************************************************************************)
Char(s, i) == SubSeq(s, i, i)

StartsWith(s, p) == Len(s) >= Len(p) /\ SubSeq(s, 1, Len(p)) = p

EndsWith(s, p) == Len(s) >= Len(p) /\ SubSeq(s, Len(s) - Len(p) + 1, Len(s)) = p

\* Python `sub in s` on strings.
Contains(sub, s) ==
    \E i \in 1..(Len(s) - Len(sub) + 1) : SubSeq(s, i, i + Len(sub) - 1) = sub

\* str.split(sep) for a one-character separator.
RECURSIVE Split(_, _)
Split(s, sep) ==
    IF \A i \in 1..Len(s) : Char(s, i) # sep
    THEN <<s>>
    ELSE LET i == CHOOSE i \in 1..Len(s) :
                      /\ Char(s, i) = sep
                      /\ \A j \in 1..(i - 1) : Char(s, j) # sep
         IN  <<SubSeq(s, 1, i - 1)>> \o Split(SubSeq(s, i + 1, Len(s)), sep)

\* sep.join(parts)
RECURSIVE Join(_, _)
Join(parts, sep) ==
    IF Len(parts) = 0 THEN ""
    ELSE IF Len(parts) = 1 THEN parts[1]
    ELSE parts[1] \o sep \o Join(Tail(parts), sep)

RECURSIVE ZeroFill(_, _)
ZeroFill(s, width) == IF Len(s) >= width THEN s ELSE ZeroFill("0" \o s, width)

PadWidth == 3

\* Variant: the index formatted without zero padding.
Pad3_NoPad(n) == ToString(n)

\* f"{video_idx:03}"
Pad3(n) == ZeroFill(ToString(n), PadWidth)

(***************************************************************************)
(* re.sub("(\.json(\.zip)?|\.h5|\.slp)$", "", fn)                           *)
(***************************************************************************)
\* `$` matches at the end of the string and just before a final newline.
AtEnd(s, j) == j = Len(s) + 1 \/ (j = Len(s) /\ Char(s, j) = "\n")

\* Variant: the pattern without its optional (\.zip)? part.
SuffixAlternatives_NoZip == {".json", ".h5", ".slp"}

\* The alternatives of the group, the optional (\.zip)? expanded.
SuffixAlternatives == {".json.zip", ".json", ".h5", ".slp"}

MatchAt(s, i, alt) ==
    /\ i + Len(alt) - 1 <= Len(s)
    /\ SubSeq(s, i, i + Len(alt) - 1) = alt
    /\ AtEnd(s, i + Len(alt))

MatchStarts(s) == {i \in 1..Len(s) : \E alt \in SuffixAlternatives : MatchAt(s, i, alt)}

re_sub(s) ==
    IF MatchStarts(s) = {} THEN s
    ELSE LET i   == CHOOSE i \in MatchStarts(s) : \A j \in MatchStarts(s) : i <= j
             alt == CHOOSE alt \in SuffixAlternatives : MatchAt(s, i, alt)
         IN  SubSeq(s, 1, i - 1) \o SubSeq(s, i + Len(alt), Len(s))

(***************************************************************************)
(* pathlib.PurePath, POSIX flavour.                                        *)
(***************************************************************************)
PathRoot(s) ==
    IF StartsWith(s, "//") /\ ~StartsWith(s, "///") THEN "//"
    ELSE IF StartsWith(s, "/") THEN "/"
    ELSE ""

NamedPart(c) == c # "" /\ c # "."

PathParts(s) == SelectSeq(Split(s, "/"), NamedPart)

PathStr(root, parts) ==
    IF root = "" /\ Len(parts) = 0 THEN "." ELSE root \o Join(parts, "/")

\* str(PurePath(s))
PurePathStr(s) == PathStr(PathRoot(s), PathParts(s))

\* str(PurePath(s).parent)
PurePathParent(s) ==
    LET parts == PathParts(s)
    IN  IF Len(parts) = 0 THEN PurePathStr(s)
        ELSE PathStr(PathRoot(s), SubSeq(parts, 1, Len(parts) - 1))

\* PurePath(s).name
PurePathName(s) ==
    LET parts == PathParts(s)
    IN  IF Len(parts) = 0 THEN "" ELSE parts[Len(parts)]

\* PurePath(s).stem
PurePathStem(s) ==
    LET name == PurePathName(s)
        dots == {i \in 1..Len(name) : Char(name, i) = "."}
    IN  IF dots = {} THEN name
        ELSE LET i == CHOOSE i \in dots : \A j \in dots : j <= i
             IN  IF 1 < i /\ i < Len(name) THEN SubSeq(name, 1, i - 1) ELSE name

\* str(PurePath(a, b))
PurePathJoin(a, b) ==
    IF StartsWith(b, "/") THEN PurePathStr(b)
    ELSE IF a = "" \/ EndsWith(a, "/") THEN PurePathStr(a \o b)
    ELSE PurePathStr(a \o "/" \o b)

(***************************************************************************)
(* The project: an ordered sequence of distinct Video objects.  A Video    *)
(* is compared by identity (`id`); `filename` is video.backend.filename.   *)
(***************************************************************************)
Video(i, f) == [id |-> i, filename |-> f]

NoVideo == Video(0, "")

VideoLists ==
    UNION {{[i \in 1..n |-> Video(i, fs[i])] : fs \in [1..n -> VideoFiles]} : n \in 0..MaxVideos}

NoLabels == [loaded |-> FALSE, videos |-> <<>>]

\* Variant: videos compared by backing filename instead of identity.
VideoIndex_ByFilename(videos, v) ==
    (CHOOSE j \in DOMAIN videos :
        /\ videos[j].filename = v.filename
        /\ \A m \in 1..(j - 1) : videos[m].filename # v.filename) - 1

\* labels.videos.index(video): position (from 0) of the first equal element.
VideoIndex(videos, v) ==
    (CHOOSE j \in DOMAIN videos :
        videos[j] = v /\ \A m \in 1..(j - 1) : videos[m] # v) - 1

\* default_analysis_filename(labels, video, output_path, output_prefix, format_suffix)
default_analysis_filename(lbls, v, output_path, output_prefix, format_suffix) ==
    PurePathJoin(output_path,
                 output_prefix \o "." \o Pad3(VideoIndex(lbls.videos, v)) \o "_"
                     \o PurePathStem(v.filename) \o ".analysis." \o format_suffix)

(***************************************************************************)
(* main: argument values and results of external calls.                    *)
(***************************************************************************)
ArgLists == UNION {[1..n -> OutputPaths] : n \in 0..MaxOutputs}

Ok == [exc |-> "", args |-> <<>>]

Raised(e, a) == [exc |-> e, args |-> a]

LoadResults == {Ok, Raised("TypeError", <<>>), Raised("OSError", <<>>)}

ReadResults == {Ok, Raised("TypeError", <<>>), Raised("OSError", <<>>)}

NixResults ==
    {Ok, Raised("ValueError", <<"cannot export video">>), Raised("ValueError", <<>>),
     Raised("OSError", <<>>)}

H5Results == {Ok, Raised("ValueError", <<"cannot export video">>), Raised("OSError", <<>>)}

SaveResults == {Ok, Raised("OSError", <<>>)}

Call(callee, v, path, result) == [callee |-> callee, video |-> v, path |-> path, result |-> result]

FallbackNotice == "Input file isn't SLEAP dataset so attempting other importers..."

NoConversionNotice == "You didn't specify how to convert the file."

Init ==
    /\ args \in [input_path : InputPaths, outputs : ArgLists,
                 format : Formats, video : VideoArgs]
    /\ labels = NoLabels
    /\ pc = "load"
    /\ vids = <<>>
    /\ outnames = <<>>
    /\ fn = ""
    /\ pos = 1
    /\ calls = <<>>
    /\ printed = <<>>
    /\ error = ""

\* Variant: a bare `except`.
FallsBack_Any(exc) == exc # ""

\* except TypeError
FallsBack(exc) == exc = "TypeError"

\* Labels.load_file(args.input_path, video_search=video_callback)
LoadFile ==
    /\ pc = "load"
    /\ \E r \in LoadResults, vs \in VideoLists :
        /\ calls' = Append(calls, Call("Labels.load_file", NoVideo, args.input_path, r))
        /\ IF r = Ok
           THEN /\ labels' = [loaded |-> TRUE, videos |-> vs]
                /\ pc' = "dispatch"
                /\ UNCHANGED <<printed, error>>
           ELSE /\ vs = <<>>
                /\ labels' = labels
                /\ IF FallsBack(r.exc)
                   THEN /\ printed' = Append(printed, FallbackNotice)
                        /\ pc' = "read"
                        /\ error' = error
                   ELSE /\ pc' = "aborted"
                        /\ error' = r.exc
                        /\ printed' = printed
    /\ UNCHANGED <<args, vids, outnames, fn, pos>>

\* sleap.io.format.read(args.input_path, for_object="labels", as_format="*", ...)
ReadFallback ==
    /\ pc = "read"
    /\ \E r \in ReadResults, vs \in VideoLists :
        /\ calls' = Append(calls, Call("read", NoVideo, args.input_path, r))
        /\ IF r = Ok
           THEN /\ labels' = [loaded |-> TRUE, videos |-> vs]
                /\ pc' = "dispatch"
                /\ error' = error
           ELSE /\ vs = <<>>
                /\ labels' = labels
                /\ pc' = "aborted"
                /\ error' = r.exc
    /\ UNCHANGED <<args, vids, outnames, fn, pos, printed>>

\* "analysis" in args.format
IsAnalysis(format) == Contains("analysis", format)

\* "nix" in args.format
IsNix(format) == Contains("nix", format)

\* Variant: the loop over labels.videos without its `break`.
SelectVideos_AllMatches(videos, video) ==
    IF Len(video) > 0
    THEN SelectSeq(videos, LAMBDA v : Contains(video, v.filename))
    ELSE videos

\* Variant: every video is converted when none matches.
SelectVideos_AllWhenNoMatch(videos, video) ==
    IF Len(video) > 0 /\ \E j \in DOMAIN videos : Contains(video, videos[j].filename)
    THEN <<videos[CHOOSE j \in DOMAIN videos :
                     /\ Contains(video, videos[j].filename)
                     /\ \A m \in 1..(j - 1) : ~Contains(video, videos[m].filename)]>>
    ELSE videos

\* Lines 126-133: the videos to convert.
SelectVideos(videos, video) ==
    IF Len(video) > 0
    THEN LET matches == {j \in DOMAIN videos : Contains(video, videos[j].filename)}
         IN  IF matches = {} THEN <<>>
             ELSE <<videos[CHOOSE j \in matches : \A m \in matches : j <= m]>>
    ELSE videos

\* Variant: default names generated for `vids` instead of `vids[len(outnames):]`.
RemainingVideos_All(vs, names) == vs

\* vids[len(outnames):]
RemainingVideos(vs, names) == SubSeq(vs, Len(names) + 1, Len(vs))

\* out_suffix = "nix" if "nix" in args.format else "h5"
OutSuffix(format) == IF IsNix(format) THEN "nix" ELSE "h5"

\* fn = PurePath(re.sub(..., "", args.input_path))
StrippedPath(input_path) == PurePathStr(re_sub(input_path))

\* Lines 135-151: explicit paths first, then one default name per remaining video.
PlanOutnames(lbls, a, vs) ==
    IF Len(a.outputs) < Len(vs)
    THEN LET f    == StrippedPath(a.input_path)
             rest == RemainingVideos(vs, a.outputs)
         IN  a.outputs \o
             [k \in 1..Len(rest) |->
                 default_analysis_filename(lbls, rest[k], PurePathParent(f),
                                           PurePathStem(f), OutSuffix(a.format))]
    ELSE a.outputs

\* zip(vids, outnames)
Zip(vs, names) ==
    LET n == IF Len(vs) <= Len(names) THEN Len(vs) ELSE Len(names)
    IN  [k \in 1..n |-> [video |-> vs[k], path |-> names[k]]]

Targets == Zip(vids, outnames)

\* Lines 125-153: choose the videos, plan the output names, enter a writer loop.
Plan ==
    /\ pc = "dispatch"
    /\ IsAnalysis(args.format)
    /\ vids' = SelectVideos(labels.videos, args.video)
    /\ outnames' = PlanOutnames(labels, args, vids')
    /\ fn' = IF Len(args.outputs) < Len(vids') THEN StrippedPath(args.input_path) ELSE fn
    /\ pc' = IF Len(Zip(vids', outnames')) = 0 THEN "done"
             ELSE IF IsNix(args.format) THEN "nix" ELSE "h5"
    /\ UNCHANGED <<args, labels, pos, calls, printed, error>>

\* Variant: the loop left after its first iteration.
AfterIteration_Break(p, n, loop) == "done"

\* `for ... in zip(vids, outnames)`: the loop goes on until the targets run out.
AfterIteration(p, n, loop) == IF p = n THEN "done" ELSE loop

\* Variant: the writer call without its try/except.
Caught_Nothing(exc) == FALSE

\* except ValueError
Caught(exc) == exc = "ValueError"

\* Lines 156-160: one iteration of the NIX loop.
NixWrite ==
    /\ pc = "nix"
    /\ pos <= Len(Targets)
    /\ \E r \in NixResults :
        /\ calls' = Append(calls, Call("NixAdaptor.write", Targets[pos].video,
                                       Targets[pos].path, r))
        /\ IF r = Ok
           THEN /\ pos' = pos + 1
                /\ pc' = AfterIteration(pos, Len(Targets), "nix")
                /\ UNCHANGED <<printed, error>>
           ELSE IF Caught(r.exc)
                THEN IF Len(r.args) > 0
                     THEN \* print(e.args[0])
                          /\ printed' = Append(printed, r.args[1])
                          /\ pos' = pos + 1
                          /\ pc' = AfterIteration(pos, Len(Targets), "nix")
                          /\ error' = error
                     ELSE \* e.args[0] on an empty tuple
                          /\ error' = "IndexError"
                          /\ pc' = "aborted"
                          /\ UNCHANGED <<printed, pos>>
                ELSE /\ error' = r.exc
                     /\ pc' = "aborted"
                     /\ UNCHANGED <<printed, pos>>
    /\ UNCHANGED <<args, labels, vids, outnames, fn>>

\* Lines 164-171: one iteration of the analysis HDF5 loop.
H5Write ==
    /\ pc = "h5"
    /\ pos <= Len(Targets)
    /\ \E r \in H5Results :
        /\ calls' = Append(calls, Call("write_analysis", Targets[pos].video,
                                       Targets[pos].path, r))
        /\ IF r = Ok
           THEN /\ pos' = pos + 1
                /\ pc' = AfterIteration(pos, Len(Targets), "h5")
                /\ error' = error
           ELSE /\ error' = r.exc
                /\ pc' = "aborted"
                /\ pos' = pos
    /\ UNCHANGED <<args, labels, vids, outnames, fn, printed>>

\* Variant: the format appended to the suffix-stripped input path.
NativeDefaultPath_Stripped(input_path, format) == re_sub(input_path) \o "." \o format

\* f"{args.input_path}.{args.format}"
NativeDefaultPath(input_path, format) == input_path \o "." \o format

\* args.outputs[0]
FirstOutput(outs) == outs[1]

\* print(f"Output SLEAP dataset: ..."); Labels.save_file(labels, path)
SaveTo(path) ==
    /\ printed' = Append(printed, "Output SLEAP dataset: " \o path)
    /\ \E r \in SaveResults :
        /\ calls' = Append(calls, Call("Labels.save_file", NoVideo, path, r))
        /\ IF r = Ok
           THEN pc' = "done" /\ error' = error
           ELSE pc' = "aborted" /\ error' = r.exc
    /\ UNCHANGED <<args, labels, vids, outnames, fn, pos>>

\* Lines 173-175.
SaveExplicit ==
    /\ pc = "dispatch"
    /\ ~IsAnalysis(args.format)
    /\ Len(args.outputs) > 0
    /\ SaveTo(FirstOutput(args.outputs))

\* Lines 177-180.
SaveDefault ==
    /\ pc = "dispatch"
    /\ ~IsAnalysis(args.format)
    /\ Len(args.outputs) = 0
    /\ args.format \in {"slp", "h5", "json"}
    /\ SaveTo(NativeDefaultPath(args.input_path, args.format))

\* Lines 182-184.
NoConversion ==
    /\ pc = "dispatch"
    /\ ~IsAnalysis(args.format)
    /\ Len(args.outputs) = 0
    /\ args.format \notin {"slp", "h5", "json"}
    /\ printed' = printed \o <<NoConversionNotice, args>>
    /\ pc' = "done"
    /\ UNCHANGED <<args, labels, vids, outnames, fn, pos, calls, error>>

Next ==
    \/ LoadFile
    \/ ReadFallback
    \/ Plan
    \/ NixWrite
    \/ H5Write
    \/ SaveExplicit
    \/ SaveDefault
    \/ NoConversion

Spec == Init /\ [][Next]_vars

(***************************************************************************)
(* Vocabulary of the properties.                                           *)
(***************************************************************************)
IsWriterCall(c) == c.callee \in {"NixAdaptor.write", "write_analysis"}

IsSaveCall(c) == c.callee = "Labels.save_file"

WriterCalls == SelectSeq(calls, IsWriterCall)

SaveCalls == SelectSeq(calls, IsSaveCall)

Terminal == pc \in {"done", "aborted"}

\* The project was imported and the analysis planner (lines 125-151) has run.
Planned == labels.loaded /\ IsAnalysis(args.format) /\ pc \in {"nix", "h5", "done", "aborted"}

NumExplicit == Len(args.outputs)

NumSelected == Len(vids)

Matching(j) == Contains(args.video, labels.videos[j].filename)

\* A path with its one trailing recognized suffix removed.
StripRecognized(p) ==
    IF EndsWith(p, ".json.zip") THEN SubSeq(p, 1, Len(p) - 9)
    ELSE IF EndsWith(p, ".json") THEN SubSeq(p, 1, Len(p) - 5)
    ELSE IF EndsWith(p, ".h5") THEN SubSeq(p, 1, Len(p) - 3)
    ELSE IF EndsWith(p, ".slp") THEN SubSeq(p, 1, Len(p) - 4)
    ELSE p

HasRecognizedSuffix(p) == StripRecognized(p) # p

\* The base stem main uses in default names when run on `input_path`.
BaseStemFor(input_path) == PurePathStem(StrippedPath(input_path))

\* The default path main generates for video v in the current invocation.
DefaultPathOf(v) ==
    LET stripped == StrippedPath(args.input_path)
    IN  default_analysis_filename(labels, v, PurePathParent(stripped),
                                  PurePathStem(stripped), OutSuffix(args.format))

ThreeDigits(n) ==
    IF n < 10 THEN "00" \o ToString(n)
    ELSE IF n < 100 THEN "0" \o ToString(n)
    ELSE ToString(n)

\* "<directory>/<stem>.<index>_<video filename stem>.analysis.<suffix>"
ExpectedDefault(v) ==
    LET base  == StripRecognized(args.input_path)
        dir   == PurePathParent(base)
        stem  == PurePathStem(base)
        index == (CHOOSE j \in DOMAIN labels.videos : labels.videos[j].id = v.id) - 1
        name  == stem \o "." \o ThreeDigits(index) \o "_" \o PurePathStem(v.filename)
                     \o ".analysis." \o (IF Contains("nix", args.format) THEN "nix" ELSE "h5")
    IN  IF dir = "." THEN name
        ELSE IF EndsWith(dir, "/") THEN dir \o name
        ELSE dir \o "/" \o name

IsValueErrorWithMessage(r) == r.exc = "ValueError" /\ Len(r.args) > 0

ImportFailed ==
    \E j \in DOMAIN calls :
        /\ calls[j].callee \in {"Labels.load_file", "read"}
        /\ calls[j].result # Ok
        /\ ~(calls[j].callee = "Labels.load_file" /\ calls[j].result.exc = "TypeError")

(***************************************************************************)
(* Properties.                                                             *)
(***************************************************************************)

\* C1: in an analysis export with S selected videos and E explicit paths there
\* are exactly S targets; target k belongs to the k-th selected video and takes
\* the k-th explicit path when k <= E (counting from 1) and its video's default
\* path otherwise; the writer calls use these targets position by position, so
\* no explicit path after the S-th reaches a writer.
C1_TargetAssignment ==
    Planned =>
        LET targets == Targets
            writes  == WriterCalls
        IN  /\ Len(targets) = NumSelected
            /\ \A k \in 1..NumSelected :
                /\ targets[k].video = vids[k]
                /\ targets[k].path = IF k <= NumExplicit THEN args.outputs[k]
                                     ELSE DefaultPathOf(vids[k])
            /\ Len(writes) <= NumSelected
            /\ \A j \in DOMAIN writes :
                /\ writes[j].video = targets[j].video
                /\ writes[j].path = targets[j].path

C1_Witness ==
    /\ Planned /\ pc = "done"
    /\ NumSelected = 2 /\ NumExplicit = 1
    /\ Len(WriterCalls) = 2
    /\ WriterCalls[1].path = args.outputs[1]
    /\ WriterCalls[2].path = DefaultPathOf(vids[2])

\* C2 as stated: no two targets handed to a writer share an output path.
C2_NoSharedPath ==
    \A j, k \in DOMAIN WriterCalls : j # k => WriterCalls[j].path # WriterCalls[k].path

\* C2 amended: no two targets whose paths were both auto-generated share an
\* output path (a shared path always involves an explicit -o path).
C2_DefaultsDistinct ==
    Planned =>
        \A j, k \in DOMAIN WriterCalls :
            (j # k /\ j > NumExplicit /\ k > NumExplicit)
                => WriterCalls[j].path # WriterCalls[k].path

C2_Witness ==
    /\ Planned /\ pc = "done"
    /\ NumExplicit = 0 /\ Len(WriterCalls) = 2
    /\ WriterCalls[1].video.filename = WriterCalls[2].video.filename
    /\ WriterCalls[1].path # WriterCalls[2].path

\* C3 as stated: for both analysis kinds, once the invocation has ended, a
\* writer failure has not kept any later target from being attempted.
C3_FailureNeverStopsLaterTargets ==
    (Planned /\ Terminal /\ \E j \in DOMAIN WriterCalls : WriterCalls[j].result # Ok)
        => Len(WriterCalls) = NumSelected

\* C3 amended: only a value error carrying a message raised by the NIX writer
\* is isolated: the next target is then attempted; every other writer failure
\* (any failure of the analysis-h5 writer included) is the last writer call
\* and ends the invocation with an error: the writer's own, or IndexError when
\* the NIX writer raised a value error without a message.
C3_OnlyNixValueErrorIsolated ==
    Planned =>
        \A j \in DOMAIN WriterCalls :
            WriterCalls[j].result # Ok =>
                IF IsNix(args.format) /\ IsValueErrorWithMessage(WriterCalls[j].result)
                THEN j < NumSelected =>
                        \/ Len(WriterCalls) > j
                        \/ (pc = "nix" /\ pos = j + 1)
                ELSE /\ j = Len(WriterCalls)
                     /\ pc = "aborted"
                     /\ error = IF IsNix(args.format) /\ WriterCalls[j].result.exc = "ValueError"
                               THEN "IndexError"
                               ELSE WriterCalls[j].result.exc

C3_Witness ==
    /\ Planned /\ pc = "done" /\ IsNix(args.format)
    /\ Len(WriterCalls) = 2
    /\ IsValueErrorWithMessage(WriterCalls[1].result)
    /\ WriterCalls[2].result = Ok

\* The writer calls so far are the targets, once each and in selection
\* (video-index) order, every failure among them was printed, and the
\* invocation has not aborted and ends normally after the last target.
NixCallsFollowTargets ==
    /\ \A j \in DOMAIN WriterCalls :
        /\ j <= Len(Targets)
        /\ WriterCalls[j].callee = "NixAdaptor.write"
        /\ WriterCalls[j].video = Targets[j].video
        /\ WriterCalls[j].path = Targets[j].path
    /\ \A j, k \in DOMAIN WriterCalls :
        j < k => WriterCalls[j].video.id < WriterCalls[k].video.id
    /\ LET failed  == SelectSeq(WriterCalls, LAMBDA c : c.result # Ok)
           notices == SelectSeq(printed, LAMBDA m : m # FallbackNotice)
       IN  /\ Len(notices) = Len(failed)
           /\ \A j \in DOMAIN failed :
                Len(failed[j].result.args) > 0 /\ notices[j] = failed[j].result.args[1]
    /\ pc # "aborted"
    /\ Terminal => (pc = "done" /\ error = "" /\ Len(WriterCalls) = Len(Targets))

\* C4 as stated: in a NIX export whose writer failures are all value errors,
\* the writer calls are the targets, once each and in selection order; each
\* failure is reported as a message and followed by the later attempts, and
\* the invocation ends normally.
C4_AnyValueErrorIsolated ==
    (Planned /\ IsNix(args.format)
        /\ \A j \in DOMAIN WriterCalls :
              WriterCalls[j].result = Ok \/ WriterCalls[j].result.exc = "ValueError")
    => NixCallsFollowTargets

\* C4 amended: the same, in a NIX export whose writer failures are all value
\* errors carrying a message (at least one argument).
C4_NixAttemptsEveryTargetInOrder ==
    (Planned /\ IsNix(args.format)
        /\ \A j \in DOMAIN WriterCalls :
              WriterCalls[j].result = Ok \/ IsValueErrorWithMessage(WriterCalls[j].result))
    => NixCallsFollowTargets

C4_Witness ==
    /\ Planned /\ IsNix(args.format) /\ pc = "done"
    /\ Len(WriterCalls) = 2
    /\ IsValueErrorWithMessage(WriterCalls[1].result)
    /\ IsValueErrorWithMessage(WriterCalls[2].result)
    /\ Len(printed) >= 2

\* C5: the selected videos are all project videos in project order when
\* --video is empty, and exactly the first video (in project order) whose
\* filename contains --video when it is non-empty and some video matches.
C5_VideoSelection ==
    Planned =>
        /\ args.video = "" => vids = labels.videos
        /\ (args.video # "" /\ \E j \in DOMAIN labels.videos : Matching(j)) =>
              /\ Len(vids) = 1
              /\ \E j \in DOMAIN labels.videos :
                    /\ vids[1] = labels.videos[j]
                    /\ Matching(j)
                    /\ \A m \in 1..(j - 1) : ~Matching(m)

C5_Witness ==
    /\ Planned /\ args.video = "cam"
    /\ Len(labels.videos) = 2
    /\ \A j \in DOMAIN labels.videos : Matching(j)
    /\ vids = <<labels.videos[1]>>

\* C6: for format slp, h5 or json (project loaded), no analysis writer is ever
\* called, and by the end exactly one native save was made: to the first
\* explicit path if any, else to "<input_path>.<format>" ("proj.slp" with
\* format slp gives "proj.slp.slp").
C6_NativeSave ==
    (labels.loaded /\ args.format \in {"slp", "h5", "json"}) =>
        /\ Len(WriterCalls) = 0
        /\ Len(SaveCalls) <= 1
        /\ Terminal =>
            /\ Len(SaveCalls) = 1
            /\ SaveCalls[1].path = IF NumExplicit > 0 THEN args.outputs[1]
                                   ELSE args.input_path \o "." \o args.format
            /\ (args.input_path = "proj.slp" /\ args.format = "slp" /\ NumExplicit = 0)
                   => SaveCalls[1].path = "proj.slp.slp"

C6_Witness ==
    /\ pc = "done" /\ labels.loaded
    /\ args.input_path = "proj.slp" /\ args.format = "slp" /\ NumExplicit = 0
    /\ Len(SaveCalls) = 1
    /\ SaveCalls[1].path = "proj.slp.slp"

\* C7 as stated: for every input path p, the base stem used for default
\* names equals the one used when the input is p with its recognized suffix
\* already stripped.
C7_StemIdempotent ==
    (Planned /\ NumExplicit < NumSelected)
        => PurePathStem(fn) = BaseStemFor(StripRecognized(args.input_path))

\* C7 amended: the same, for every input path whose suffix-stripped form does
\* not itself end in a recognized suffix.
C7_StemIdempotentSingleSuffix ==
    (Planned /\ NumExplicit < NumSelected
        /\ ~HasRecognizedSuffix(StripRecognized(args.input_path)))
        => PurePathStem(fn) = BaseStemFor(StripRecognized(args.input_path))

C7_Witness ==
    /\ Planned /\ NumExplicit < NumSelected
    /\ args.input_path = "d/data.json.zip"
    /\ PurePathStem(fn) = "data"
    /\ BaseStemFor("d/data") = "data"

\* C8: every auto-generated path is
\* "<directory>/<stem>.<index>_<video filename stem>.analysis.<suffix>" with
\* directory and stem taken from input_path less its trailing recognized
\* suffix, index the video's position in the whole project padded to three
\* digits, and suffix "nix" or "h5"; "proj.slp" with camA.mp4 and camB.mp4
\* gives "proj.000_camA.analysis.h5" and "proj.001_camB.analysis.h5".
C8_DefaultPathShape ==
    Planned =>
        /\ \A k \in (NumExplicit + 1)..NumSelected : outnames[k] = ExpectedDefault(vids[k])
        /\ ( /\ args.input_path = "proj.slp" /\ args.format = "analysis"
             /\ NumExplicit = 0 /\ args.video = ""
             /\ Len(labels.videos) = 2
             /\ PurePathName(labels.videos[1].filename) = "camA.mp4"
             /\ PurePathName(labels.videos[2].filename) = "camB.mp4" )
           => outnames = <<"proj.000_camA.analysis.h5", "proj.001_camB.analysis.h5">>

C8_Witness ==
    /\ Planned /\ NumExplicit = 0
    /\ args.input_path = "/r/my.v1.h5" /\ args.video = "camB" /\ IsNix(args.format)
    /\ Len(labels.videos) = 2
    /\ vids = <<labels.videos[2]>>
    /\ outnames = <<"/r/my.001_camB.analysis.nix">>

\* C9: the generic reader is called only right after the native loader failed
\* with a format mismatch (TypeError) and the fallback notice was printed; if
\* the loader fails otherwise or the reader fails, the invocation ends with
\* that error and neither an analysis writer nor the saver is called.
C9_ImportFallback ==
    /\ \A j \in DOMAIN calls :
          calls[j].callee = "read" =>
              /\ j = 2
              /\ calls[1].callee = "Labels.load_file"
              /\ calls[1].result.exc = "TypeError"
              /\ Len(printed) >= 1 /\ printed[1] = FallbackNotice
    /\ pc = "read" => (printed = <<FallbackNotice>> /\ Len(calls) = 1)
    /\ ImportFailed =>
          /\ pc = "aborted"
          /\ error = calls[Len(calls)].result.exc
          /\ ~labels.loaded
          /\ Len(WriterCalls) = 0
          /\ Len(SaveCalls) = 0

C9_Witness ==
    /\ Len(calls) = 2
    /\ calls[1].result.exc = "TypeError"
    /\ calls[2].callee = "read" /\ calls[2].result # Ok
    /\ pc = "aborted"

\* C10: in an analysis export whose non-empty --video string occurs in no
\* project video's filename, no video is selected, no default path is
\* generated, no writer is called (explicit paths or not), and the invocation
\* ends normally without an error.
C10_NoMatchingVideo ==
    (Planned /\ args.video # "" /\ \A j \in DOMAIN labels.videos : ~Matching(j)) =>
        /\ vids = <<>>
        /\ outnames = args.outputs
        /\ fn = ""
        /\ Len(WriterCalls) = 0
        /\ pc = "done"
        /\ error = ""
        /\ \A m \in DOMAIN printed : printed[m] = FallbackNotice

C10_Witness ==
    /\ Planned /\ pc = "done"
    /\ args.video = "camB"
    /\ Len(labels.videos) = 2
    /\ \A j \in DOMAIN labels.videos : ~Matching(j)
    /\ NumExplicit = 2
    /\ vids = <<>>

TypeOK == pc \in {"load", "read", "dispatch", "nix", "h5", "done", "aborted"}

====
